---- MODULE Spec2Model ----
(***************************************************************************)
(* Model of app.py: the Streamlit "Sales Prep Analyst" page.               *)
(*                                                                         *)
(* Strings are sequences of pieces.  A piece is a run of characters that   *)
(* the program only ever copies; the two things the program looks for      *)
(* inside a string are pieces of their own: the single space " " (looked   *)
(* for by query.split(" ")) and the three letters "All" (looked for by     *)
(* "All" in real_unit).  The unit name Allergy is <<"All", "ergy">>.       *)
(* The literal tail of an f-string is one piece behind its leading space.  *)
(*                                                                         *)
(* Python values (JSON data, session state) are records with a tag t.      *)
(***************************************************************************)
EXTENDS Integers, Sequences, FiniteSets, TLC

\* ------------------------------------------------------------------ bounds
\* At most this many web-search requests of one script run fail (throw or
\* come back empty).
MaxFaults == 2

\* ------------------------------------------------------------ Python values
None == [t |-> "none"]
PyStr(s) == [t |-> "str", s |-> s]
PyList(items) == [t |-> "list", items |-> items]
PyDict(d) == [t |-> "dict", d |-> d]
EmptyDict == PyDict([k \in {} |-> None])

\* bool(v) as Python computes it for the values above
Truthy(v) ==
    CASE v.t = "none" -> FALSE
      [] v.t = "str"  -> Len(v.s) > 0
      [] v.t = "list" -> Len(v.items) > 0
      [] v.t = "dict" -> DOMAIN v.d # {}

\* ------------------------------------------------------------------ strings
RECURSIVE Concat(_)
\* "".join(parts)
Concat(parts) ==
    IF parts = <<>> THEN <<>> ELSE Head(parts) \o Concat(Tail(parts))

\* sub in s, for strings
Contains(sub, s) ==
    \E i \in 0..(Len(s) - Len(sub)) : SubSeq(s, i + 1, i + Len(sub)) = sub

RECURSIVE SplitFirst(_)
\* s.split(" ")[0]
SplitFirst(s) ==
    IF s = <<>> \/ Head(s) = " " THEN <<>>
    ELSE <<Head(s)>> \o SplitFirst(Tail(s))

RECURSIVE StripLeft(_)
StripLeft(s) == IF s # <<>> /\ Head(s) = " " THEN StripLeft(Tail(s)) ELSE s

RECURSIVE StripRight(_)
StripRight(s) ==
    IF s # <<>> /\ s[Len(s)] = " " THEN StripRight(SubSeq(s, 1, Len(s) - 1)) ELSE s

\* s.strip()
Strip(s) == StripRight(StripLeft(s))

\* --------------------------------------------------------------------- JSON
\* Pieces of a model response.  Separators (commas, blanks between tokens)
\* are part of the neighbouring piece.
\* the two code fences, with and without the json tag
Fences == {"<fence json>", "<fence>"}
\* a JSON string literal, and the Python string it denotes
StrLiterals == {"<Pharma>", "<Allergy>"}
StrOf(tok) == IF tok = "<Pharma>" THEN <<"Pharma">> ELSE <<"All", "ergy">>
\* {"name": .., "description": ..} written out whole, no "units" key
ClosedObjects == {"{S}", "{M}"}
\* {"name": .., "description": .., "units":   -- the value and "}" follow
OpenObjects == {"{S:", "{M:"}
NameOf(tok) ==
    IF tok \in {"{S}", "{S:"} THEN <<"Solvias">> ELSE <<"Merck", " ", "KGaA">>
DescOf(tok) ==
    IF tok \in {"{S}", "{S:"} THEN <<"HQ CH">> ELSE <<"HQ DE">>

Entity(tok) ==
    PyDict([k \in {"name", "description"} |->
              IF k = "name" THEN PyStr(NameOf(tok)) ELSE PyStr(DescOf(tok))])
EntityWithUnits(tok, units) ==
    PyDict([k \in {"name", "description", "units"} |->
              CASE k = "name" -> PyStr(NameOf(tok))
                [] k = "description" -> PyStr(DescOf(tok))
                [] k = "units" -> units])

Fail == [ok |-> FALSE, val |-> None, next |-> 0]

RECURSIVE ParseValue(_, _)
RECURSIVE ParseItems(_, _, _)
\* One JSON value of s starting at piece i: [ok, val, next].
ParseValue(s, i) ==
    IF i > Len(s) THEN Fail
    ELSE
      CASE s[i] = "null" -> [ok |-> TRUE, val |-> None, next |-> i + 1]
        [] s[i] = "{}" -> [ok |-> TRUE, val |-> EmptyDict, next |-> i + 1]
        [] s[i] \in StrLiterals ->
             [ok |-> TRUE, val |-> PyStr(StrOf(s[i])), next |-> i + 1]
        [] s[i] \in ClosedObjects ->
             [ok |-> TRUE, val |-> Entity(s[i]), next |-> i + 1]
        [] s[i] \in OpenObjects ->
             LET u == ParseValue(s, i + 1) IN
             IF u.ok /\ u.next <= Len(s) /\ s[u.next] = "}"
             THEN [ok |-> TRUE, val |-> EntityWithUnits(s[i], u.val),
                   next |-> u.next + 1]
             ELSE Fail
        [] s[i] = "[" -> ParseItems(s, i + 1, <<>>)
        [] OTHER -> Fail

\* The items of a JSON array whose "[" has been read, up to its "]".
ParseItems(s, i, acc) ==
    IF i > Len(s) THEN Fail
    ELSE IF s[i] = "]" THEN [ok |-> TRUE, val |-> PyList(acc), next |-> i + 1]
    ELSE LET v == ParseValue(s, i) IN
         IF v.ok THEN ParseItems(s, v.next, Append(acc, v.val)) ELSE Fail

\* json.loads(s): [raised, val]; trailing pieces are "Extra data"
JsonLoads(s) ==
    LET r == ParseValue(s, 1) IN
    IF r.ok /\ r.next = Len(s) + 1
    THEN [raised |-> FALSE, val |-> r.val]
    ELSE [raised |-> TRUE, val |-> None]

\* re.sub of the pattern fence-json | fence by the empty string
RemoveFences(text) == SelectSeq(text, LAMBDA p : p \notin Fences)

\* re.search of the pattern [ anything ] with DOTALL: greedy, from the first "[" to the
\* last "]" behind it; <<>> when there is no match (a match is never empty).
SearchList(text) ==
    LET opens == {i \in 1..Len(text) : text[i] = "["} IN
    IF opens = {} THEN <<>>
    ELSE LET i == CHOOSE x \in opens : \A y \in opens : x <= y
             closes == {j \in (i + 1)..Len(text) : text[j] = "]"}
         IN IF closes = {} THEN <<>>
            ELSE SubSeq(text, i, CHOOSE x \in closes : \A y \in closes : y <= x)

extract_json(text) ==
    LET clean == Strip(RemoveFences(text))
        match == SearchList(clean)
        r == IF match # <<>> THEN JsonLoads(match) ELSE JsonLoads(clean)
    IN IF r.raised THEN None ELSE r.val

\* ------------------------------------------------------- the two web APIs
\* What one request to the search API does: it throws, or it returns no
\* result, or it returns results (which tell the query they answer).
SearchOutcomes == {"throw", "empty", "hit"}
Threw(o) == o = "throw"
Results(o, q) == IF o = "hit" THEN <<[title |-> q]>> ELSE <<>>

\* how many of the requests failed
Faults(outs) == Cardinality({i \in DOMAIN outs : outs[i] # "hit"})

\* str(results)
Repr(results) ==
    <<"[">> \o Concat([i \in DOMAIN results |->
                         <<"{'title': '">> \o results[i].title \o <<"'}">>])
            \o <<"]">>

\* What one generate_content(prompt).text does: it throws, or gives a text.
ModelThrew == [threw |-> TRUE, text |-> <<>>]
ModelSaid(text) == [threw |-> FALSE, text |-> text]

models == <<"models/gemini-1.5-pro", "models/gemini-1.5-pro-latest",
            "models/gemini-1.5-flash">>

\* run_gemini without the fallback list: only the first model is tried
TryModelsFirstOnly(k, outs, tried) ==
    LET now == Append(tried, [model |-> models[k], out |-> outs[k]]) IN
    IF outs[k].threw THEN [tried |-> now, ret |-> None]
    ELSE [tried |-> now, ret |-> PyStr(outs[k].text)]

RECURSIVE TryModels(_, _, _)
\* for m in models: try: return ...text / except: continue.  outs[k] is what
\* the call of models[k] does.  [tried, ret]
TryModels(k, outs, tried) ==
    IF k > Len(models) THEN [tried |-> tried, ret |-> None]
    ELSE LET now == Append(tried, [model |-> models[k], out |-> outs[k]]) IN
         IF outs[k].threw THEN TryModels(k + 1, outs, now)
         ELSE [tried |-> now, ret |-> PyStr(outs[k].text)]

\* run_gemini(prompt) with the sidebar's api_key; cfg_throws says whether
\* genai.configure throws.  The record of the call:
\*   configured: genai.configure was called;  tried: the model calls made,
\*   in order, each with what it did;  ret: the value returned.
run_gemini(prompt, key, cfg_throws, outs) ==
    IF key = "" THEN
        [prompt |-> prompt, key |-> key, configured |-> FALSE,
         cfg_threw |-> FALSE, tried |-> <<>>, ret |-> None]
    ELSE IF cfg_throws THEN
        [prompt |-> prompt, key |-> key, configured |-> TRUE,
         cfg_threw |-> TRUE, tried |-> <<>>, ret |-> None]
    ELSE LET r == TryModels(1, outs, <<>>) IN
        [prompt |-> prompt, key |-> key, configured |-> TRUE,
         cfg_threw |-> FALSE, tried |-> r.tried, ret |-> r.ret]

\* robust_search that asks the first query twice before it falls back (the
\* unused max_retries=2 taken at its word)
robust_search_retrying(query, o1, o2) ==
    IF ~Threw(o1) /\ Results(o1, query) # <<>> THEN
        [query |-> query, sent |-> <<query>>, outs |-> <<o1>>,
         ret |-> Results(o1, query), raised |-> FALSE]
    ELSE
        LET fallback == SplitFirst(query) \o <<" ", "company overview">>
        IN [query |-> query, sent |-> <<query, query, fallback>>,
            outs |-> <<o1, o1, o2>>,
            ret |-> IF ~Threw(o2) /\ Results(o2, fallback) # <<>>
                    THEN Results(o2, fallback) ELSE <<>>,
            raised |-> FALSE]

\* robust_search with no try around the first request
robust_search_uncaught(query, o1, o2) ==
    IF Threw(o1) THEN
        [query |-> query, sent |-> <<query>>, outs |-> <<o1>>,
         ret |-> <<>>, raised |-> TRUE]
    ELSE IF Results(o1, query) # <<>> THEN
        [query |-> query, sent |-> <<query>>, outs |-> <<o1>>,
         ret |-> Results(o1, query), raised |-> FALSE]
    ELSE
        LET fallback == SplitFirst(query) \o <<" ", "company overview">>
        IN [query |-> query, sent |-> <<query, fallback>>, outs |-> <<o1, o2>>,
            ret |-> IF ~Threw(o2) /\ Results(o2, fallback) # <<>>
                    THEN Results(o2, fallback) ELSE <<>>,
            raised |-> FALSE]

\* robust_search(query); o1 and o2 are what the first and the second request
\* do.  The record of the call:
\*   sent: the queries requested, in order;  outs: what each request did;
\*   ret: the list returned;  raised: an exception left the function.
robust_search(query, o1, o2) ==
    IF ~Threw(o1) /\ Results(o1, query) # <<>> THEN
        [query |-> query, sent |-> <<query>>, outs |-> <<o1>>,
         ret |-> Results(o1, query), raised |-> FALSE]
    ELSE
        LET simple_q == SplitFirst(query)
            fallback == simple_q \o <<" ", "company overview">>
        IN [query |-> query, sent |-> <<query, fallback>>, outs |-> <<o1, o2>>,
            ret |-> IF ~Threw(o2) /\ Results(o2, fallback) # <<>>
                    THEN Results(o2, fallback) ELSE <<>>,
            raised |-> FALSE]

\* Every way one robust_search(q) can go with at most `budget` failed requests.
SearchRuns(q, budget) ==
    {c \in {robust_search(q, o1, o2) : o1, o2 \in SearchOutcomes} :
        Faults(c.outs) <= budget}

RECURSIVE DragnetRuns(_, _)
\* Every way the calls robust_search(q), q in queries in order, can go with
\* at most `budget` failed requests in all.  A call that raised ends the loop.
DragnetRuns(qs, budget) ==
    IF qs = <<>> THEN {<<>>}
    ELSE UNION {
           IF c.raised THEN {<<c>>}
           ELSE {<<c>> \o rest :
                   rest \in DragnetRuns(Tail(qs), budget - Faults(c.outs))} :
           c \in SearchRuns(Head(qs), budget)}

\* ------------------------------------------------------------------ inputs
\* what the user types into "Target Company Name"
CompanyInputs == {<<>>, <<"Solvias">>, <<"Merck", " ", "KGaA">>}
\* what the user types into "Competitors" and "Your Goal"
CompetitorInputs == {<<"Thermo Fisher">>}
ContextInputs == {<<"Selling Lab Automation">>}
\* what the user types into "Business Unit / Focus Area" (manual mode)
ManualUnits == {<<"General", " ", "Overview">>, <<"Pharma">>}
\* what the user types into "Enter Gemini API Key"
KeyInputs == {"", "sk-key"}

\* texts a model answers the entity prompt with
EntityTexts ==
    { <<"<fence json>", "[", "{S:", "[", "<Pharma>", "<Allergy>", "]", "}", "]",
        "<fence>">>,
      <<"[", "{S}", "{M:", "[", "<Pharma>", "]", "}", "]">>,
      <<"[", "]">>,
      <<"Sorry, nothing found.">>,
      <<"{}">>,
      <<"{S:", "[", "<Pharma>", "]", "}">>,
      <<"{S}">>,
      <<"null">>,
      <<"See", "[", "{S}", "]", "and more", "]">>,
      <<>> }
\* texts a model answers the briefing prompt with
ReportTexts == {<<"### Section A ...">>}

ModelOutcomes(texts) == {ModelThrew} \cup {ModelSaid(t) : t \in texts}

\* ------------------------------------------------------------------- pages
\* the f-string of the entity prompt
EntityPrompt(company_input, search_text) ==
    <<"Task: Extract corporate entities for '">> \o company_input
      \o <<"' from: ">> \o search_text
      \o <<"<scenarios A, B; Output JSON ONLY: [ { name, description, units } ]>">>

\* the f-string of the briefing prompt
FinalPrompt(real_company, real_unit, context, competitors, search_dump) ==
    <<"Role: ... Task: Produce a briefing for **">> \o real_company
      \o <<"** (Unit: **">> \o real_unit \o <<"**). Context: ">> \o context
      \o <<" Competitors: ">> \o competitors
      \o <<" RAW WEB DATA (Priority #1): ">> \o search_dump
      \o <<"<hybrid rule; Section A ... Gaining/Losing vs ">> \o competitors
      \o <<"? <Sections B-E; Format>">>

\* the entity "Skip & Enter Manually" stores
ManualEntity(company_input) ==
    PyDict([k \in {"name", "description", "units"} |->
              CASE k = "name" ->
                     PyStr(IF company_input # <<>> THEN company_input
                           ELSE <<"Target Company">>)
                [] k = "description" -> PyStr(<<"Manual Entry">>)
                [] k = "units" ->
                     PyList(<<PyStr(<<"General", " ", "/", " ", "All", " ",
                                      "Units">>)>>)])

AllOption == <<"All", " ", "/", " ", "Full Company Overview">>

\* o['name'] and o['description'] can be read
IsEntity(o) == o.t = "dict" /\ {"name", "description"} \subseteq DOMAIN o.d

\* opts[idx].get('units', [])
raw_units(o) == IF "units" \in DOMAIN o.d THEN o.d.units ELSE PyList(<<>>)

\* ["All / Full Company Overview"] + raw_units
combined_units(o) == <<PyStr(AllOption)>> \o raw_units(o).items

\* The values real_company and real_unit can have when the step 2 page has
\* rendered down to the "Run Deep Dive Analysis" button (an exception while
\* the selectors are built leaves no button to press).
Selections(opts, manual) ==
    IF manual THEN
        IF opts.t = "list" /\ Len(opts.items) > 0 /\ IsEntity(opts.items[1])
           /\ opts.items[1].d.name.t = "str"
        THEN {[real_company |-> opts.items[1].d.name.s, real_unit |-> u] :
                u \in ManualUnits}
        ELSE {}
    ELSE
        IF opts.t = "list" /\ Len(opts.items) > 0
           /\ \A i \in DOMAIN opts.items : IsEntity(opts.items[i])
        THEN UNION {
               IF opts.items[idx].d.name.t = "str"
                  /\ raw_units(opts.items[idx]).t = "list"
               THEN {[real_company |-> opts.items[idx].d.name.s,
                      real_unit |-> combined_units(opts.items[idx])[j].s] :
                       j \in {j \in DOMAIN combined_units(opts.items[idx]) :
                                combined_units(opts.items[idx])[j].t = "str"}}
               ELSE {} :
               idx \in DOMAIN opts.items}
        ELSE {}

BroadQueries(c) ==
    << c \o <<" ", "investor presentation 2024 2025 strategic priorities">>,
       c \o <<" ", "annual report 2024 revenue growth outlook">>,
       c \o <<" ", "leadership team CEO management changes 2024 2025">>,
       c \o <<" ", "restructuring layoffs new facility investment 2025">>,
       c \o <<" ", "major customers partnerships case studies">> >>

UnitQueries(c, u, competitors) ==
    << c \o <<" ">> \o u \o <<" ", "revenue growth market share 2024">>,
       c \o <<" ">> \o u \o <<" ", "strategic initiatives new products 2025">>,
       c \o <<" ">> \o u \o <<" ", "competitors comparison", " ">> \o competitors,
       c \o <<" ">> \o u \o <<" ", "leadership management team">> >>

\* if "All" in real_unit or manual_entry: broad list, else unit list
ChooseQueries(real_company, real_unit, competitors, manual) ==
    IF Contains(<<"All">>, real_unit) \/ manual
    THEN BroadQueries(real_company)
    ELSE UnitQueries(real_company, real_unit, competitors)

\* one "Query/Data" block of search_dump
Block(q, res) == <<"<nl>Query: ">> \o q \o <<"<nl>Data: ">> \o Repr(res) \o <<"<nl>">>

RECURSIVE DragnetDumpAll(_, _)
\* the dragnet loop without "if res": every query leaves a block
DragnetDumpAll(calls, dump) ==
    IF calls = <<>> THEN dump
    ELSE LET c == Head(calls) IN
         DragnetDumpAll(Tail(calls), dump \o Block(c.query, c.ret))

RECURSIVE DragnetDump(_, _)
\* for q in queries: res = robust_search(q); if res: search_dump += block
\* calls are the robust_search calls of the loop, in order
DragnetDump(calls, dump) ==
    IF calls = <<>> THEN dump
    ELSE LET c == Head(calls) IN
         DragnetDump(Tail(calls),
                     IF ~c.raised /\ c.ret # <<>>
                     THEN dump \o Block(c.query, c.ret) ELSE dump)

\* the requests a robust_search / run_gemini call sends, in order
SearchRequests(c) == [i \in DOMAIN c.sent |-> [api |-> "search", arg |-> c.sent[i]]]
ModelRequests(g) ==
    [i \in DOMAIN g.tried |-> [api |-> "generate", arg |-> <<g.tried[i].model>>]]

\* -------------------------------------------------------------------- state
VARIABLES
    step, entity_options, manual_entry,   \* st.session_state
    has_secret, api_key,                  \* the sidebar: st.secrets, api_key
    \* the script run in progress: the button whose handler ran ("idle"
    \* between runs), its locals and the calls and requests it made
    handler, real_company, real_unit, queries, search_dump,
    search_calls, gemini_calls, requests, shown

session == <<step, entity_options, manual_entry>>
sidebar == <<has_secret, api_key>>
run == <<handler, real_company, real_unit, queries, search_dump,
         search_calls, gemini_calls, requests, shown>>
vars == <<session, sidebar, run>>

NoLocals ==
    /\ real_company = <<>> /\ real_unit = <<>> /\ queries = <<>>
    /\ search_dump = <<>> /\ search_calls = <<>> /\ gemini_calls = <<>>
    /\ requests = <<>>

Init ==
    /\ step = 1
    /\ entity_options = PyList(<<>>)
    /\ manual_entry = FALSE
    /\ has_secret \in BOOLEAN
    /\ api_key = IF has_secret THEN "sk-key" ELSE ""
    /\ handler = "idle" /\ shown = ""
    /\ NoLocals

\* A handler that made the calls scs and gcs and left the deep-dive locals
\* unset.
Ran(name, scs, gcs, msg) ==
    /\ handler' = name
    /\ shown' = msg
    /\ search_calls' = scs
    /\ gemini_calls' = gcs
    /\ requests' = Concat([i \in DOMAIN scs |-> SearchRequests(scs[i])])
                     \o Concat([i \in DOMAIN gcs |-> ModelRequests(gcs[i])])
    /\ UNCHANGED <<real_company, real_unit, queries, search_dump>>

\* the text input "Enter Gemini API Key", shown when st.secrets has no key
EnterApiKey(k) ==
    /\ handler = "idle"
    /\ ~has_secret
    /\ api_key' = k
    /\ UNCHANGED <<session, has_secret, run>>

\* Start New Search that forgets manual_entry
StartNewSearchKeepsManual ==
    /\ handler = "idle"
    /\ step' = 1
    /\ entity_options' = PyList(<<>>)
    /\ UNCHANGED manual_entry
    /\ Ran("start_new", <<>>, <<>>, "")
    /\ UNCHANGED sidebar

\* the sidebar button "Start New Search"
StartNewSearch ==
    /\ handler = "idle"
    /\ step' = 1
    /\ entity_options' = PyList(<<>>)
    /\ manual_entry' = FALSE
    /\ Ran("start_new", <<>>, <<>>, "")
    /\ UNCHANGED sidebar

\* the step 1 button "Skip & Enter Manually"
SkipManual(company_input) ==
    /\ handler = "idle"
    /\ step = 1
    /\ manual_entry' = TRUE
    /\ entity_options' = PyList(<<ManualEntity(company_input)>>)
    /\ step' = 2
    /\ Ran("skip", <<>>, <<>>, "")
    /\ UNCHANGED sidebar

\* Find Account without "if data": whatever was parsed is stored
FindAccountStoresAnything(company_input, sc, cfg_throws, outs) ==
    /\ handler = "idle"
    /\ step = 1
    /\ UNCHANGED sidebar
    /\ IF api_key = "" THEN
           /\ Ran("find", <<>>, <<>>, "Need API Key")
           /\ UNCHANGED session
       ELSE IF sc.raised THEN
           /\ Ran("find", <<sc>>, <<>>, "exception")
           /\ UNCHANGED session
       ELSE IF sc.ret = <<>> THEN
           /\ Ran("find", <<sc>>, <<>>, "Search found 0 results")
           /\ UNCHANGED session
       ELSE
           LET prompt == EntityPrompt(company_input, Repr(sc.ret))
               g == run_gemini(prompt, api_key, cfg_throws, outs)
               data == IF Truthy(g.ret) THEN extract_json(g.ret.s) ELSE None
           IN /\ entity_options' = data
              /\ step' = 2
              /\ UNCHANGED manual_entry
              /\ Ran("find", <<sc>>, <<g>>, "")

\* Find Account without st.stop() behind "No results found"
FindAccountNoStop(company_input, sc, cfg_throws, outs) ==
    /\ handler = "idle"
    /\ step = 1
    /\ UNCHANGED sidebar
    /\ IF api_key = "" THEN
           /\ Ran("find", <<>>, <<>>, "Need API Key")
           /\ UNCHANGED session
       ELSE IF sc.raised THEN
           /\ Ran("find", <<sc>>, <<>>, "exception")
           /\ UNCHANGED session
       ELSE
           LET prompt == EntityPrompt(company_input, Repr(sc.ret))
               g == run_gemini(prompt, api_key, cfg_throws, outs)
               data == IF Truthy(g.ret) THEN extract_json(g.ret.s) ELSE None
           IN IF Truthy(data) THEN
                  /\ entity_options' = data
                  /\ step' = 2
                  /\ UNCHANGED manual_entry
                  /\ Ran("find", <<sc>>, <<g>>, "")
              ELSE
                  /\ Ran("find", <<sc>>, <<g>>, "AI couldn't parse the data")
                  /\ UNCHANGED session

\* the step 1 button "Find Account"
FindAccount(company_input, sc, cfg_throws, outs) ==
    /\ handler = "idle"
    /\ step = 1
    /\ UNCHANGED sidebar
    /\ IF api_key = "" THEN
           /\ Ran("find", <<>>, <<>>, "Need API Key")
           /\ UNCHANGED session
       ELSE IF sc.raised THEN
           /\ Ran("find", <<sc>>, <<>>, "exception")
           /\ UNCHANGED session
       ELSE IF sc.ret = <<>> THEN
           /\ Ran("find", <<sc>>, <<>>, "Search found 0 results")
           /\ UNCHANGED session
       ELSE
           LET prompt == EntityPrompt(company_input, Repr(sc.ret))
               g == run_gemini(prompt, api_key, cfg_throws, outs)
               data == IF Truthy(g.ret) THEN extract_json(g.ret.s) ELSE None
           IN IF Truthy(data) THEN
                  /\ entity_options' = data
                  /\ step' = 2
                  /\ UNCHANGED manual_entry
                  /\ Ran("find", <<sc>>, <<g>>, "")
              ELSE
                  /\ Ran("find", <<sc>>, <<g>>, "AI couldn't parse the data")
                  /\ UNCHANGED session

\* the step 2 button "Run Deep Dive Analysis"
RunDeepDive(sel, competitors, context, calls, cfg_throws, outs) ==
    /\ handler = "idle"
    /\ step = 2
    /\ UNCHANGED <<session, sidebar>>
    /\ handler' = "deep"
    /\ real_company' = sel.real_company
    /\ real_unit' = sel.real_unit
    /\ queries' = ChooseQueries(sel.real_company, sel.real_unit, competitors,
                                manual_entry)
    /\ search_calls' = calls
    /\ search_dump' = DragnetDump(calls, <<>>)
    /\ IF calls # <<>> /\ calls[Len(calls)].raised THEN
           /\ gemini_calls' = <<>>
           /\ requests' = Concat([i \in DOMAIN calls |-> SearchRequests(calls[i])])
           /\ shown' = "exception"
       ELSE
           LET final_prompt == FinalPrompt(sel.real_company, sel.real_unit,
                                           context, competitors, search_dump')
               g == run_gemini(final_prompt, api_key, cfg_throws, outs)
           IN /\ gemini_calls' = <<g>>
              /\ requests' =
                   Concat([i \in DOMAIN calls |-> SearchRequests(calls[i])])
                     \o ModelRequests(g)
              /\ shown' = IF Truthy(g.ret) THEN "Analyst Briefing"
                          ELSE "AI generation failed."

\* The script run ends (st.rerun(), st.stop() or the last line): its locals
\* are gone and the page waits for the next click.
EndOfRun ==
    /\ handler # "idle"
    /\ handler' = "idle" /\ shown' = ""
    /\ real_company' = <<>> /\ real_unit' = <<>> /\ queries' = <<>>
    /\ search_dump' = <<>> /\ search_calls' = <<>> /\ gemini_calls' = <<>>
    /\ requests' = <<>>
    /\ UNCHANGED <<session, sidebar>>

\* A click is taken when the page waits for one; the inputs of a handler
\* are drawn only where its button is on the page.
Next ==
    \/ \E k \in KeyInputs : EnterApiKey(k)
    \/ StartNewSearch
    \/ \E c \in CompanyInputs : SkipManual(c)
    \/ /\ handler = "idle" /\ step = 1
       /\ \E c \in CompanyInputs :
            \E sc \in SearchRuns(c \o <<" ", "corporate structure business units investor relations">>, MaxFaults) :
              \E cfg \in BOOLEAN, outs \in [1..Len(models) -> ModelOutcomes(EntityTexts)] :
                FindAccount(c, sc, cfg, outs)
    \/ /\ handler = "idle" /\ step = 2
       /\ \E sel \in Selections(entity_options, manual_entry) :
            \E competitors \in CompetitorInputs, context \in ContextInputs :
              \E calls \in DragnetRuns(ChooseQueries(sel.real_company, sel.real_unit,
                                                     competitors, manual_entry),
                                       MaxFaults) :
                \E cfg \in BOOLEAN, outs \in [1..Len(models) -> ModelOutcomes(ReportTexts)] :
                  RunDeepDive(sel, competitors, context, calls, cfg, outs)
    \/ EndOfRun

Spec == Init /\ [][Next]_vars

\* ------------------------------------------------------------------ claims
NSearch == Cardinality({i \in DOMAIN requests : requests[i].api = "search"})
NGenerate == Cardinality({i \in DOMAIN requests : requests[i].api = "generate"})

\* the run_gemini calls of the run that were made with an API key set
KeyedCalls == {i \in DOMAIN gemini_calls : gemini_calls[i].key # ""}

AllThrew(g) ==
    Len(g.tried) = Len(models) /\ \A i \in DOMAIN g.tried : g.tried[i].out.threw

\* The models are called in the order of the list, model k+1 only after
\* model k threw, none after a success, and the first success is returned.
FallbackOrder(g) ==
    /\ Len(g.tried) <= Len(models)
    /\ \A i \in DOMAIN g.tried : g.tried[i].model = models[i]
    /\ \A i \in DOMAIN g.tried : i < Len(g.tried) => g.tried[i].out.threw
    /\ \A i \in DOMAIN g.tried :
         ~g.tried[i].out.threw =>
            i = Len(g.tried) /\ g.ret = PyStr(g.tried[i].out.text)

\* C1 as stated: with a key set, run_gemini tries the models in list order,
\* returns the text of the first that does not throw, and returns None
\* exactly when all three calls threw.
C1_NoneIffAllThrew ==
    \A i \in KeyedCalls :
        LET g == gemini_calls[i] IN
        FallbackOrder(g) /\ (g.ret = None <=> AllThrew(g))

\* C1 amended: with a key set, run_gemini tries the models in list order and
\* returns the text of the first that does not throw; it returns None exactly
\* when genai.configure threw (and then no model was called) or all three
\* calls threw.
C1_NoneIffConfigOrAllThrew ==
    \A i \in KeyedCalls :
        LET g == gemini_calls[i] IN
        /\ FallbackOrder(g)
        /\ g.ret = None <=> (g.cfg_threw \/ AllThrew(g))
        /\ g.cfg_threw => g.tried = <<>>

\* a keyed call whose first model threw and whose second answered
C1_Witness ==
    \E i \in KeyedCalls :
        LET g == gemini_calls[i] IN
        /\ Len(g.tried) = 2
        /\ g.tried[1].out.threw /\ ~g.tried[2].out.threw
        /\ g.ret = PyStr(g.tried[2].out.text)

\* a Find Account click that stored the candidate list
Stored == handler = "find" /\ step = 2

\* C2 as stated: a Find Account click that stores the candidate list has
\* issued exactly one web-search request and one generation request.
C2_OneRequestEach == Stored => NSearch = 1 /\ NGenerate = 1

\* C2 amended: a Find Account click that stores the candidate list has made
\* exactly one robust_search call and one run_gemini call, which issued one
\* or two web-search requests and one to three generation requests.
C2_OneCallEach ==
    Stored =>
        /\ Len(search_calls) = 1 /\ Len(gemini_calls) = 1
        /\ NSearch \in 1..2 /\ NGenerate \in 1..3
        /\ NSearch = Len(search_calls[1].sent)
        /\ NGenerate = Len(gemini_calls[1].tried)

\* a stored list that took the fallback search and the second model
C2_Witness == Stored /\ NSearch = 2 /\ NGenerate = 2

\* the block a call of the dragnet loop leaves in search_dump
BlockOf(c) == IF c.ret # <<>> THEN Block(c.query, c.ret) ELSE <<>>

\* C3: on Run Deep Dive Analysis the queries are searched one at a time in
\* list order; search_dump is the concatenation, in query order, of one block
\* per query with a non-empty result; the generation requests come after the
\* last search request and their prompt holds the complete dump.
C3_DumpInOrder ==
    (handler = "deep" /\ shown # "exception") =>
        /\ Len(search_calls) = Len(queries)
        /\ \A i \in DOMAIN queries : search_calls[i].query = queries[i]
        /\ search_dump = Concat([i \in DOMAIN search_calls |-> BlockOf(search_calls[i])])
        /\ \A i \in DOMAIN requests :
             i <= NSearch <=> requests[i].api = "search"
        /\ SelectSeq(requests, LAMBDA r : r.api = "search")
             = Concat([i \in DOMAIN search_calls |-> SearchRequests(search_calls[i])])
        /\ \A i \in DOMAIN gemini_calls :
             Contains(<<" RAW WEB DATA (Priority #1): ">> \o search_dump
                        \o <<"<hybrid rule; Section A ... Gaining/Losing vs ">>,
                      gemini_calls[i].prompt)

\* a deep dive where a query found nothing, a later one found something and
\* the model was asked
C3_Witness ==
    /\ handler = "deep"
    /\ \E i, j \in DOMAIN search_calls :
         i < j /\ search_calls[i].ret = <<>> /\ search_calls[j].ret # <<>>
    /\ NGenerate > 0

\* A Find Account run (its handler h, calls scs and gcs, and the list eo it
\* left in entity_options) whose search found something and whose model
\* answer parsed into a truthy value, which is what was stored.
FindSucceeded(h, scs, gcs, eo) ==
    /\ h = "find"
    /\ Len(scs) = 1 /\ scs[1].ret # <<>>
    /\ Len(gcs) = 1 /\ Truthy(gcs[1].ret)
    /\ Truthy(extract_json(gcs[1].ret.s))
    /\ eo = extract_json(gcs[1].ret.s)

\* C4: step is 1 or 2; it goes from 1 to 2 only by Skip & Enter Manually or
\* by a Find Account whose search and model parse both succeeded, and to 1
\* only by Start New Search; Run Deep Dive Analysis leaves step,
\* entity_options and manual_entry unchanged.
C4_StepFlag ==
    /\ [](step \in {1, 2})
    /\ [][ /\ (step = 1 /\ step' = 2) => (handler' = "skip" \/ FindSucceeded(handler', search_calls', gemini_calls',
                                           entity_options'))
           /\ (step # 1 /\ step' = 1) => handler' = "start_new"
           /\ (handler = "idle" /\ handler' = "deep") => UNCHANGED session ]_vars

\* a deep dive has run on step 2, reached through Find Account
C4_Witness ==
    handler = "deep" /\ step = 2 /\ ~manual_entry /\ shown = "AI generation failed."

\* the token the fallback query starts with: the query up to its first space
IsFirstToken(t, q) ==
    /\ Len(t) <= Len(q) /\ t = SubSeq(q, 1, Len(t))
    /\ \A i \in DOMAIN t : t[i] # " "
    /\ Len(t) < Len(q) => q[Len(t) + 1] = " "

FindFailed(h, key, scs, gcs) ==
    /\ h = "find"
    /\ \/ key = ""
       \/ scs = <<>>
       \/ scs[1].ret = <<>>
       \/ gcs = <<>>
       \/ ~Truthy(gcs[1].ret)
       \/ ~Truthy(extract_json(gcs[1].ret.s))

\* C6: a Find Account click that fails leaves step, entity_options and
\* manual_entry unchanged and the session on step 1; with no API key it makes
\* no request at all, and with no search result it makes no model request.
C6_FailedFind ==
    [][ (handler = "idle"
           /\ FindFailed(handler', api_key', search_calls', gemini_calls')) =>
          /\ UNCHANGED session
          /\ step' = 1
          /\ api_key' = "" => requests' = <<>>
          /\ (search_calls' # <<>> /\ search_calls'[1].ret = <<>>) =>
                /\ gemini_calls' = <<>>
                /\ \A i \in DOMAIN requests' : requests'[i].api = "search" ]_vars

\* a Find Account whose model answered with text that parsed into a falsy
\* value
C6_Witness ==
    /\ handler = "find" /\ step = 1
    /\ Len(gemini_calls) = 1 /\ Truthy(gemini_calls[1].ret)
    /\ extract_json(gemini_calls[1].ret.s) = PyList(<<>>)

\* C7 as stated: the broad five-query list is used exactly when the user
\* selected the All / Full Company Overview option or manual mode is active;
\* a specific unit selected in non-manual mode gets the four unit queries,
\* each containing the unit's name.
C7_BroadOnlyForAll ==
    handler = "deep" =>
        /\ queries = BroadQueries(real_company)
             <=> (real_unit = AllOption \/ manual_entry)
        /\ (real_unit # AllOption /\ ~manual_entry) =>
              /\ Len(queries) = 4
              /\ \A i \in DOMAIN queries : Contains(real_unit, queries[i])

\* C8: Start New Search puts the session back in its initial state, so that
\* a Find Account that succeeds afterwards shows the standard selectors.
C8_StartNewResets ==
    /\ [][ handler' = "start_new" =>
             /\ step' = 1
             /\ entity_options' = PyList(<<>>)
             /\ manual_entry' = FALSE ]_vars
    /\ [](Stored => ~manual_entry)

\* Start New Search has run and the session is as Init leaves it
C8_Witness ==
    /\ handler = "start_new"
    /\ step = 1 /\ entity_options = PyList(<<>>) /\ ~manual_entry

====
